---- MODULE Spec2Model ----
(***************************************************************************)
(* Memory-conditioned planner (project_01_memory_planner): the episodic    *)
(* memory store (JSONL log + in-memory index), the scorer, the             *)
(* epsilon-greedy selector, the confidence update rule and run_episode.    *)
(*                                                                         *)
(* Numbers.  Confidences are kept in hundredths (0.58 is 58), so the       *)
(* update deltas +0.08 / +0.02 / -0.10 are 8 / 2 / -10 and the clamp       *)
(* interval [0.05, 0.95] is [5, 95].  Timestamps are small integers.       *)
(*                                                                         *)
(* The log.  The file is a sequence of lines.  A line is the text of one   *)
(* JSON value, kept as what json.loads makes of it: "blank" (nothing but   *)
(* white space), "garbage" (no JSON value), "array" (a JSON value that is  *)
(* no object) or "object" with its members, an ordered list of             *)
(* <<key, value>> pairs as they stand in the text.                         *)
(***************************************************************************)
EXTENDS Integers, Sequences, FiniteSets, TLC

VARIABLES
    log,              \* the durable file at self.path: a sequence of lines
    st,               \* "none": no store object; "open": __init__ returned one
    records,          \* self.records
    confidence,       \* self.confidence      (dict fingerprint -> float)
    successes,        \* self.successes       (dict fingerprint -> int)
    failures,         \* self.failures
    partials,         \* self.partials
    last_ts,          \* self.last_ts
    context_history,  \* self.context_history (dict fingerprint -> list of lists)
    err,              \* the exception the last operation raised, or "none"
    lastop,           \* the last operation that ran
    nappend,          \* the number of records appended so far (bounds the run)
    upd,              \* the last call of confidence_update: arguments and result
    nupd,             \* the number of calls of confidence_update so far
    epsilon,          \* planner.epsilon, in hundredths
    half_life,        \* planner.decay_half_life_days, in units of the clock
    sel,              \* the last call of select_plan: arguments and result
    planner,          \* "none": no planner object; "ready": __init__ returned one
    score,            \* the last call of score_plan: arguments and result
    wpc,              \* a thread in append(wrec): the statement it is to run next
    wrec,             \* the record that thread appends
    rpc,              \* a thread in score_plan, on wrec's fingerprint: its next read
    seen,             \* what that reader has read so far
    before            \* the index when append(wrec) was called

storeVars == <<log, st, records, confidence, successes, failures, partials,
               last_ts, context_history, err, lastop, nappend>>
updVars == <<upd, nupd>>
selVars == <<epsilon, half_life, sel, planner, score>>
threadVars == <<wpc, wrec, rpc, seen, before>>
vars == <<storeVars, updVars, selVars, threadVars>>

-----------------------------------------------------------------------------
(* Bounds and input sets *)

MaxAppends == 2
MaxUpdates == 7
MaxHist == 1
MaxPlans == 2
MaxEpisodes == 5

Fingerprints == {"a", "b"}
Outcomes == {"success", "failure", "partial"}
\* an outcome string outside the three documented kinds
BogusOutcome == "bogus"
AnyOutcomes == Outcomes \cup {BogusOutcome}
RecordVariants ==
    { [confidence_after |-> 58, ts |-> 2, context_tags |-> <<"x">>],
      [confidence_after |-> 42, ts |-> 1, context_tags |-> << >>] }

-----------------------------------------------------------------------------
(* Python dicts: functions whose domain is the set of keys present *)

EmptyDict == [k \in {} |-> 0]

DictGet(d, k, default) == IF k \in DOMAIN d THEN d[k] ELSE default

DictSet(d, k, v) == [x \in (DOMAIN d) \cup {k} |-> IF x = k THEN v ELSE d[x]]

-----------------------------------------------------------------------------
(* EpisodicRecord and its JSON line *)

FieldNames == <<"fingerprint", "goal", "context_tags", "steps", "outcome",
                "score_delta", "confidence_after", "ts", "notes">>

AllFields == {FieldNames[i] : i \in 1..Len(FieldNames)}

\* the fields of the dataclass that have no default (notes has one: "")
RequiredFields == AllFields \ {"notes"}

FieldOf(rec, name) ==
    CASE name = "fingerprint" -> rec.fingerprint
      [] name = "goal" -> rec.goal
      [] name = "context_tags" -> rec.context_tags
      [] name = "steps" -> rec.steps
      [] name = "outcome" -> rec.outcome
      [] name = "score_delta" -> rec.score_delta
      [] name = "confidence_after" -> rec.confidence_after
      [] name = "ts" -> rec.ts
      [] OTHER -> rec.notes

\* json.dumps(asdict(rec)) + "\n": one object, a member per field, in field order
EncodeDropsNotes(rec) ==
    [json |-> "object",
     members |-> [i \in 1..(Len(FieldNames) - 1) |->
                     <<FieldNames[i], FieldOf(rec, FieldNames[i])>>]]

Encode(rec) ==
    [json |-> "object",
     members |-> [i \in 1..Len(FieldNames) |->
                     <<FieldNames[i], FieldOf(rec, FieldNames[i])>>]]

Keys(members) == {members[i][1] : i \in 1..Len(members)}

\* json.loads keeps the last member of a repeated key
Member(members, key) ==
    LET last == CHOOSE i \in 1..Len(members) :
                    /\ members[i][1] = key
                    /\ \A j \in (i + 1)..Len(members) : members[j][1] # key
    IN members[last][2]

\* obj = json.loads(line); rec = EpisodicRecord(**obj)
\* returns [err, rec]: err is the exception raised, or "none"
NoRecord == [fingerprint |-> "", goal |-> "", context_tags |-> << >>,
             steps |-> << >>, outcome |-> "", score_delta |-> 0,
             confidence_after |-> 0, ts |-> 0, notes |-> ""]

Decode(line) ==
    IF line.json = "garbage"
    THEN [err |-> "JSONDecodeError", rec |-> NoRecord]
    ELSE IF line.json # "object"
    THEN [err |-> "TypeError", rec |-> NoRecord]
    ELSE IF ~(Keys(line.members) \subseteq AllFields)
    THEN [err |-> "TypeError", rec |-> NoRecord]
    ELSE IF ~(RequiredFields \subseteq Keys(line.members))
    THEN [err |-> "TypeError", rec |-> NoRecord]
    ELSE [err |-> "none",
          rec |-> [fingerprint |-> Member(line.members, "fingerprint"),
                   goal |-> Member(line.members, "goal"),
                   context_tags |-> Member(line.members, "context_tags"),
                   steps |-> Member(line.members, "steps"),
                   outcome |-> Member(line.members, "outcome"),
                   score_delta |-> Member(line.members, "score_delta"),
                   confidence_after |-> Member(line.members, "confidence_after"),
                   ts |-> Member(line.members, "ts"),
                   notes |-> IF "notes" \in Keys(line.members)
                             THEN Member(line.members, "notes")
                             ELSE ""]]

-----------------------------------------------------------------------------
(* The in-memory index *)

\* the fields __init__ sets before _load
EmptyMem == [records |-> << >>, confidence |-> EmptyDict,
             successes |-> EmptyDict, failures |-> EmptyDict,
             partials |-> EmptyDict, last_ts |-> EmptyDict,
             context_history |-> EmptyDict]

Mem == [records |-> records, confidence |-> confidence,
        successes |-> successes, failures |-> failures,
        partials |-> partials, last_ts |-> last_ts,
        context_history |-> context_history]

\* a plausible variant: the aggregate follows the record with the latest
\* timestamp instead of the record indexed last
IndexRecordByTimestamp(m, rec) ==
    LET fp == rec.fingerprint
        newer == fp \notin DOMAIN m.last_ts \/ rec.ts >= m.last_ts[fp]
    IN [m EXCEPT
          !.confidence = IF newer THEN DictSet(@, fp, rec.confidence_after) ELSE @,
          !.last_ts = IF newer THEN DictSet(@, fp, rec.ts) ELSE @,
          !.context_history = DictSet(@, fp,
                                 Append(DictGet(@, fp, << >>), rec.context_tags)),
          !.successes = IF rec.outcome = "success"
                        THEN DictSet(@, fp, DictGet(@, fp, 0) + 1) ELSE @,
          !.failures = IF rec.outcome = "failure"
                       THEN DictSet(@, fp, DictGet(@, fp, 0) + 1) ELSE @,
          !.partials = IF rec.outcome \notin {"success", "failure"}
                       THEN DictSet(@, fp, DictGet(@, fp, 0) + 1) ELSE @]

\* a plausible variant: a record whose outcome is none of the three kinds is
\* not counted
IndexRecordKnownOutcomes(m, rec) ==
    LET fp == rec.fingerprint
    IN [m EXCEPT
          !.confidence = DictSet(@, fp, rec.confidence_after),
          !.last_ts = DictSet(@, fp, rec.ts),
          !.context_history = DictSet(@, fp,
                                 Append(DictGet(@, fp, << >>), rec.context_tags)),
          !.successes = IF rec.outcome = "success"
                        THEN DictSet(@, fp, DictGet(@, fp, 0) + 1) ELSE @,
          !.failures = IF rec.outcome = "failure"
                       THEN DictSet(@, fp, DictGet(@, fp, 0) + 1) ELSE @,
          !.partials = IF rec.outcome = "partial"
                       THEN DictSet(@, fp, DictGet(@, fp, 0) + 1) ELSE @]

\* EpisodicMemory._index_record
IndexRecord(m, rec) ==
    LET fp == rec.fingerprint
    IN [m EXCEPT
          !.confidence = DictSet(@, fp, rec.confidence_after),
          !.last_ts = DictSet(@, fp, rec.ts),
          !.context_history = DictSet(@, fp,
                                 Append(DictGet(@, fp, << >>), rec.context_tags)),
          !.successes = IF rec.outcome = "success"
                        THEN DictSet(@, fp, DictGet(@, fp, 0) + 1) ELSE @,
          !.failures = IF rec.outcome = "failure"
                       THEN DictSet(@, fp, DictGet(@, fp, 0) + 1) ELSE @,
          !.partials = IF rec.outcome \notin {"success", "failure"}
                       THEN DictSet(@, fp, DictGet(@, fp, 0) + 1) ELSE @]

\* self.records.append(rec); self._index_record(rec)
AddRecord(m, rec) ==
    IndexRecord([m EXCEPT !.records = Append(@, rec)], rec)

\* a plausible variant of _load: a line that does not parse is skipped
RECURSIVE LoadSkipping(_, _)
LoadSkipping(m, lines) ==
    IF lines = << >> THEN [err |-> "none", mem |-> m]
    ELSE IF Head(lines).json = "blank" THEN LoadSkipping(m, Tail(lines))
    ELSE LET d == Decode(Head(lines))
         IN IF d.err # "none" THEN LoadSkipping(m, Tail(lines))
            ELSE LoadSkipping(AddRecord(m, d.rec), Tail(lines))

\* EpisodicMemory._load on an existing file: the lines in file order, blank
\* lines skipped, the first exception ends the load (and __init__)
RECURSIVE Load(_, _)
Load(m, lines) ==
    IF lines = << >> THEN [err |-> "none", mem |-> m]
    ELSE IF Head(lines).json = "blank" THEN Load(m, Tail(lines))
    ELSE LET d == Decode(Head(lines))
         IN IF d.err # "none" THEN [err |-> d.err, mem |-> m]
            ELSE Load(AddRecord(m, d.rec), Tail(lines))

\* EpisodicMemory(path): what a new store on the file holds
Replay(lines) == Load(EmptyMem, lines)

-----------------------------------------------------------------------------
(* The getters *)

\* a plausible variant: the caller's default is not used, 0.5 is
get_confidence_fixed_default(fp, default) == DictGet(confidence, fp, 50)

get_confidence(fp, default) == DictGet(confidence, fp, default)

get_stats(fp) == [success |-> DictGet(successes, fp, 0),
                  failure |-> DictGet(failures, fp, 0),
                  partial |-> DictGet(partials, fp, 0)]

\* None is modelled as -1
None == -1
get_last_ts(fp) == DictGet(last_ts, fp, None)

get_context_history(fp) == DictGet(context_history, fp, << >>)

-----------------------------------------------------------------------------
(* Inputs of the store *)

\* the records a caller may hand to append: a later one (ts 2) and an
\* earlier one (ts 1), which differ in confidence and context as well
RecordInputs ==
    { [fingerprint |-> fp, goal |-> "g", context_tags |-> v.context_tags,
       steps |-> <<"s">>, outcome |-> o,
       score_delta |-> IF o = "success" THEN 8 ELSE IF o = "partial" THEN 2 ELSE 0 - 10,
       confidence_after |-> v.confidence_after, ts |-> v.ts, notes |-> "n"] :
      fp \in Fingerprints, o \in AnyOutcomes, v \in RecordVariants }

GoodRec == [fingerprint |-> "a", goal |-> "g", context_tags |-> <<"x">>,
            steps |-> <<"s">>, outcome |-> "success", score_delta |-> 8,
            confidence_after |-> 58, ts |-> 1, notes |-> "n"]

BlankLine == [json |-> "blank", members |-> << >>]
GarbageLine == [json |-> "garbage", members |-> << >>]
ArrayLine == [json |-> "array", members |-> << >>]
\* an object without the required field ts
MissingLine == [json |-> "object",
                members |-> SelectSeq(Encode(GoodRec).members,
                                      LAMBDA kv : kv[1] # "ts")]
\* an object with every field and one more, unknown to the dataclass
ExtraLine == [json |-> "object",
              members |-> Append(Encode(GoodRec).members, <<"schema", "v2">>)]
\* an object without notes, the one field that has a default
NoNotesLine == [json |-> "object",
                members |-> SelectSeq(Encode(GoodRec).members,
                                      LAMBDA kv : kv[1] # "notes")]

\* the files a store may be opened on: written by an earlier session or by
\* another program
ExistingLogs ==
    { << >>, <<BlankLine>>, <<NoNotesLine>>, <<Encode(GoodRec), BlankLine>>,
      <<GarbageLine>>, <<ArrayLine>>, <<MissingLine>>, <<ExtraLine>>,
      <<Encode(GoodRec), GarbageLine>>, <<MissingLine, Encode(GoodRec)>> }

-----------------------------------------------------------------------------
(* The store's operations *)

SetMem(m) ==
    /\ records' = m.records
    /\ confidence' = m.confidence
    /\ successes' = m.successes
    /\ failures' = m.failures
    /\ partials' = m.partials
    /\ last_ts' = m.last_ts
    /\ context_history' = m.context_history

\* the same fields in an initial state
MemIs(m) ==
    /\ records = m.records
    /\ confidence = m.confidence
    /\ successes = m.successes
    /\ failures = m.failures
    /\ partials = m.partials
    /\ last_ts = m.last_ts
    /\ context_history = m.context_history

memVars == <<records, confidence, successes, failures, partials, last_ts,
             context_history>>

\* EpisodicMemory.__init__: an exception of _load leaves the caller without
\* a store
Open ==
    /\ st = "none"
    /\ LET r == Replay(log)
       IN /\ st' = IF r.err = "none" THEN "open" ELSE "none"
          /\ SetMem(IF r.err = "none" THEN r.mem ELSE EmptyMem)
          /\ err' = r.err
    /\ lastop' = "open"
    /\ UNCHANGED <<log, nappend, updVars, selVars, threadVars>>

\* a plausible variant: the file is opened with "w", which truncates it
AppendTruncating(rec) ==
    /\ st = "open"
    /\ nappend < MaxAppends
    /\ log' = <<Encode(rec)>>
    /\ SetMem(AddRecord(Mem, rec))
    /\ err' = "none"
    /\ lastop' = "append"
    /\ nappend' = nappend + 1
    /\ UNCHANGED <<st, updVars, selVars, threadVars>>

\* EpisodicMemory.append, the write succeeding
AppendOk(rec) ==
    /\ st = "open"
    /\ nappend < MaxAppends
    /\ log' = Append(log, Encode(rec))
    /\ SetMem(AddRecord(Mem, rec))
    /\ err' = "none"
    /\ lastop' = "append"
    /\ nappend' = nappend + 1
    /\ UNCHANGED <<st, updVars, selVars, threadVars>>

\* a plausible variant: the index is updated before the write is tried
AppendFailIndexFirst(rec) ==
    /\ st = "open"
    /\ SetMem(AddRecord(Mem, rec))
    /\ err' = "OSError"
    /\ lastop' = "append"
    /\ UNCHANGED <<log, st, nappend, updVars, selVars, threadVars>>

\* EpisodicMemory.append, open() or the write raising OSError: the
\* exception leaves the with block and the method
AppendFail(rec) ==
    /\ st = "open"
    /\ err' = "OSError"
    /\ lastop' = "append"
    /\ UNCHANGED <<log, st, memVars, nappend, updVars, selVars, threadVars>>

\* the process ends, or the store object is dropped
Close ==
    /\ st = "open"
    /\ st' = "none"
    /\ SetMem(EmptyMem)
    /\ err' = "none"
    /\ lastop' = "close"
    /\ UNCHANGED <<log, nappend, updVars, selVars, threadVars>>

StoreInit ==
    /\ log \in ExistingLogs
    /\ st = "none"
    /\ records = << >>
    /\ confidence = EmptyDict
    /\ successes = EmptyDict
    /\ failures = EmptyDict
    /\ partials = EmptyDict
    /\ last_ts = EmptyDict
    /\ context_history = EmptyDict
    /\ err = "none"
    /\ lastop = "none"
    /\ nappend = 0

-----------------------------------------------------------------------------
(* The learning rule *)

Max2(a, b) == IF a >= b THEN a ELSE b
Min2(a, b) == IF a <= b THEN a ELSE b

\* a plausible variant: the result is capped above only
confidence_update_no_floor(prev, outcome) ==
    LET delta == IF outcome = "success" THEN 8
                 ELSE IF outcome = "partial" THEN 2
                 ELSE -10
    IN [new |-> Min2(95, prev + delta), delta |-> delta, raised |-> "none"]

\* confidence_update(prev, outcome) -> (new, delta); it has no raise
confidence_update(prev, outcome) ==
    LET delta == IF outcome = "success" THEN 8
                 ELSE IF outcome = "partial" THEN 2
                 ELSE -10
    IN [new |-> Max2(5, Min2(95, prev + delta)), delta |-> delta,
        raised |-> "none"]

\* the confidences a first call may be given: any float, also outside [0, 1]
StartConfidences == (0 - 20)..120

\* no call of confidence_update yet; new is the confidence the next call of
\* the chain is given
UpdIdle(c) == [prev |-> c, outcome |-> "none", new |-> c, delta |-> 0,
               raised |-> "none"]

\* one call of confidence_update on the confidence the last call returned
Update(outcome) ==
    /\ nupd < MaxUpdates
    /\ LET r == confidence_update(upd.new, outcome)
       IN upd' = [prev |-> upd.new, outcome |-> outcome, new |-> r.new,
                  delta |-> r.delta, raised |-> r.raised]
    /\ nupd' = nupd + 1
    /\ UNCHANGED <<storeVars, selVars, threadVars>>

-----------------------------------------------------------------------------
(* Exact fractions, for the scores: [n, d] with d > 0, in lowest terms *)

Abs(a) == IF a < 0 THEN 0 - a ELSE a

RECURSIVE GCD(_, _)
GCD(a, b) == IF b = 0 THEN a ELSE GCD(b, a % b)

Lcm(a, b) == (a * b) \div GCD(a, b)

Rat(n, d) == LET g == GCD(Abs(n), d) IN [n |-> n \div g, d |-> d \div g]

RAdd(p, q) == LET l == Lcm(p.d, q.d)
              IN Rat(p.n * (l \div p.d) + q.n * (l \div q.d), l)

RMul(p, q) == Rat(p.n * q.n, p.d * q.d)

RLess(p, q) == LET l == Lcm(p.d, q.d)
               IN p.n * (l \div p.d) < q.n * (l \div q.d)

\* max(a, b) and min(a, b) of Python: the first argument on a tie
RMax(p, q) == IF RLess(p, q) THEN q ELSE p
RMin(p, q) == IF RLess(q, p) THEN q ELSE p

RECURSIVE RSum(_)
RSum(seq) == IF seq = << >> THEN Rat(0, 1) ELSE RAdd(Head(seq), RSum(Tail(seq)))

RECURSIVE Pow2(_)
Pow2(k) == IF k = 0 THEN 1 ELSE 2 * Pow2(k - 1)

-----------------------------------------------------------------------------
(* The planner: score and select *)

SetOf(list) == {list[i] : i \in 1..Len(list)}

\* jaccard_similarity(a, b)
jaccard_similarity(a, b) ==
    LET sa == SetOf(a)
        sb == SetOf(b)
    IN IF sa = {} /\ sb = {} THEN Rat(1, 1)
       ELSE IF sa = {} \/ sb = {} THEN Rat(0, 1)
       ELSE Rat(Cardinality(sa \cap sb), Cardinality(sa \cup sb))

\* MemoryConditionedPlanner._recency_weight, the clock reading now.  Ages
\* are whole half-lives, so that 0.5 ** (age / half_life) is a fraction.
recency_weight(ts, now) ==
    IF ts = None THEN Rat(0, 1)
    ELSE LET age == Max2(0, now - ts)
         IN IF half_life <= 0 THEN Rat(1, 1)
            ELSE Rat(1, Pow2(age \div half_life))

\* a plausible variant of the scorer: the weighted blend is returned as it
\* is, without the clamp to [0, 1]
score_plan_unclamped(plan, now) ==
    LET fp == plan.fingerprint
        base_conf == Rat(get_confidence(fp, 50), 100)
        stats == get_stats(fp)
        total == stats.success + stats.failure + stats.partial
        evidence == IF total = 0 THEN Rat(0, 1)
                    ELSE Rat(4 * stats.success - 4 * stats.failure + stats.partial,
                             4 * Max2(1, total))
        ctx_hist == get_context_history(fp)
        similarity ==
            IF ctx_hist = << >> THEN Rat(0, 1)
            ELSE RMul(RSum([i \in 1..Len(ctx_hist) |->
                              jaccard_similarity(plan.context_tags, ctx_hist[i])]),
                      Rat(1, Len(ctx_hist)))
        recency == recency_weight(get_last_ts(fp), now)
        final == RAdd(RAdd(RMul(Rat(55, 100), base_conf),
                           RMul(RMul(Rat(25, 100), evidence),
                                RAdd(Rat(1, 2), RMul(Rat(1, 2), similarity)))),
                      RMul(Rat(20, 100), recency))
    IN [base_confidence |-> base_conf, memory_evidence |-> evidence,
        similarity |-> similarity, recency_weight |-> recency,
        final_score |-> final]

\* MemoryConditionedPlanner.score_plan, the clock reading now
score_plan(plan, now) ==
    LET fp == plan.fingerprint
        base_conf == Rat(get_confidence(fp, 50), 100)
        stats == get_stats(fp)
        total == stats.success + stats.failure + stats.partial
        evidence == IF total = 0 THEN Rat(0, 1)
                    ELSE Rat(4 * stats.success - 4 * stats.failure + stats.partial,
                             4 * Max2(1, total))
        ctx_hist == get_context_history(fp)
        similarity ==
            IF ctx_hist = << >> THEN Rat(0, 1)
            ELSE RMul(RSum([i \in 1..Len(ctx_hist) |->
                              jaccard_similarity(plan.context_tags, ctx_hist[i])]),
                      Rat(1, Len(ctx_hist)))
        recency == recency_weight(get_last_ts(fp), now)
        final == RAdd(RAdd(RMul(Rat(55, 100), base_conf),
                           RMul(RMul(Rat(25, 100), evidence),
                                RAdd(Rat(1, 2), RMul(Rat(1, 2), similarity)))),
                      RMul(Rat(20, 100), recency))
    IN [base_confidence |-> base_conf, memory_evidence |-> evidence,
        similarity |-> similarity, recency_weight |-> recency,
        final_score |-> RMax(Rat(0, 1), RMin(Rat(1, 1), final))]

\* the loop of select_plan: scored[p.fingerprint] = self.score_plan(p) for
\* the first k candidates; a later candidate with the same fingerprint
\* overwrites the entry of an earlier one
RECURSIVE ScoredAfter(_, _, _)
ScoredAfter(plans, nows, k) ==
    IF k = 0 THEN EmptyDict
    ELSE DictSet(ScoredAfter(plans, nows, k - 1), plans[k].fingerprint,
                 score_plan(plans[k], nows[k]))

\* max(plans, key=lambda p: scored[p.fingerprint].final_score): the first
\* of the candidates with the greatest key
ArgMax(plans, scored) ==
    CHOOSE i \in 1..Len(plans) :
        /\ \A j \in 1..Len(plans) :
              ~RLess(scored[plans[i].fingerprint].final_score,
                     scored[plans[j].fingerprint].final_score)
        /\ \A j \in 1..(i - 1) :
              RLess(scored[plans[j].fingerprint].final_score,
                    scored[plans[i].fingerprint].final_score)

\* the candidates: Plan objects, of which the planner reads the fingerprint
\* and the context tags.  Plans with the same goal and steps have the same
\* fingerprint whatever their context.
Plans == [goal : {"g"}, context_tags : {<< >>, <<"x">>}, steps : {<<"s">>},
          fingerprint : Fingerprints]

\* the non-empty candidate lists (random.choice and max raise on an empty one)
PlanLists == UNION {[1..n -> Plans] : n \in 1..MaxPlans}

\* readings of the clock, one for each call of score_plan, never decreasing
Nows == {2, 3}
NowLists(n) == {nows \in [1..n -> Nows] :
                   \A i, j \in 1..n : i <= j => nows[i] <= nows[j]}

\* values of random.random(), in hundredths: a float in [0, 1)
RandomDraws == {0, 50}

NoSel == [plans |-> << >>, nows |-> << >>, computed |-> << >>,
          scored |-> EmptyDict, branch |-> "none", chosen |-> 0]

\* no call of score_plan yet
NoScore == [called |-> FALSE, plan |-> << >>, now |-> 0, result |-> << >>]

\* what select_plan has done when it reaches its if: computed[i] is what
\* score_plan returned for the i-th candidate, scored the dict built
Scoring(plans, nows) ==
    [plans |-> plans,
     nows |-> nows,
     computed |-> [i \in 1..Len(plans) |-> score_plan(plans[i], nows[i])],
     scored |-> ScoredAfter(plans, nows, Len(plans)),
     branch |-> "none",
     chosen |-> 0]

\* select_plan(plans), random.random() < self.epsilon: random.choice(plans)
\* returns the k-th candidate.  chosen is the place in plans of the plan
\* returned.  select_plan changes nothing a later call reads, so a run
\* follows one call.
SelectExplore(plans, nows, r, k) ==
    /\ st = "open"
    /\ planner = "ready"
    /\ sel.branch = "none"
    /\ r < epsilon
    /\ sel' = [Scoring(plans, nows) EXCEPT !.branch = "explore", !.chosen = k]
    /\ UNCHANGED <<storeVars, updVars, epsilon, half_life, planner, score,
                   threadVars>>

\* select_plan(plans), random.random() >= self.epsilon: the maximum
SelectExploit(plans, nows, r) ==
    /\ st = "open"
    /\ planner = "ready"
    /\ sel.branch = "none"
    /\ ~(r < epsilon)
    /\ LET s == Scoring(plans, nows)
       IN sel' = [s EXCEPT !.branch = "exploit",
                           !.chosen = ArgMax(plans, s.scored)]
    /\ UNCHANGED <<storeVars, updVars, epsilon, half_life, planner, score,
                   threadVars>>

\* the records of the stores the planner is run on
HistRecords ==
    {r \in RecordInputs :
        \/ r.outcome = "success" /\ r.ts = 2
        \/ r.outcome = "failure" /\ r.ts = 1}

Histories == UNION {[1..n -> HistRecords] : n \in 0..MaxHist}

RECURSIVE AddAll(_, _)
AddAll(m, recs) ==
    IF recs = << >> THEN m ELSE AddAll(AddRecord(m, Head(recs)), Tail(recs))

\* the planner's parameters: (epsilon, decay_half_life_days)
PlannerConfigs == {<<0, 1>>, <<15, 1>>, <<15, 0>>}

\* the records of the stores the scorer is run on: append takes any record,
\* so the stored confidence may lie outside [0, 1]
ScoreRecords ==
    { [fingerprint |-> "a", goal |-> "g", context_tags |-> ctx,
       steps |-> <<"s">>, outcome |-> o,
       score_delta |-> IF o = "success" THEN 8 ELSE IF o = "partial" THEN 2 ELSE 0 - 10,
       confidence_after |-> c, ts |-> t, notes |-> "n"] :
      ctx \in {<< >>, <<"x">>}, o \in Outcomes, c \in {0 - 100, 58, 200},
      t \in {1, 2} }

ScoreHistories == UNION {[1..n -> ScoreRecords] : n \in 0..MaxHist}

\* decay_half_life_days: decay disabled (negative or zero) or one unit
HalfLifeInputs == {0 - 1, 0, 1}

\* one call of score_plan(plan), the clock reading now
ScorePlan(plan, now) ==
    /\ st = "open"
    /\ planner = "ready"
    /\ ~score.called
    /\ score' = [called |-> TRUE, plan |-> plan, now |-> now,
                 result |-> score_plan(plan, now)]
    /\ UNCHANGED <<storeVars, updVars, epsilon, half_life, sel, planner,
                   threadVars>>

\* the values a caller may pass for epsilon, in hundredths: any float, the
\* ends of [0, 1], the default 0.15 and values on either side of the range
EpsilonInputs == {0 - 10, 0, 15, 100, 150}

\* MemoryConditionedPlanner.__init__(memory, decay_half_life_days, epsilon):
\* three assignments and random.seed; it has no raise
Construct(eps, hl) ==
    /\ st = "open"
    /\ planner = "none"
    /\ epsilon' = eps
    /\ half_life' = hl
    /\ planner' = "ready"
    /\ UNCHANGED <<storeVars, updVars, sel, score, threadVars>>

-----------------------------------------------------------------------------
(* run_episode: generate, select, run, update, append *)

\* the step lists of the goal's templates (two of the three)
Templates == <<<<"s">>, <<"t">>>>

\* MemoryConditionedPlanner.fingerprint_plan: a hash of the goal and the
\* normalized steps, different for different step lists
fingerprint_plan(goal, steps) == IF steps = <<"s">> THEN "a" ELSE "b"

\* MemoryConditionedPlanner.generate_candidate_plans: one plan per template,
\* each with the caller's context
generate_candidate_plans(goal, ctx) ==
    [i \in 1..Len(Templates) |->
        [goal |-> goal, context_tags |-> ctx, steps |-> Templates[i],
         fingerprint |-> fingerprint_plan(goal, Templates[i])]]

\* now_ts(): the clock advances by one unit from one episode to the next
EpisodeClock == nappend + 1

\* the loop of select_plan in run_episode: the candidates generated for the
\* context, each scored at the reading of the clock
EpisodeScoring(ctx) ==
    LET plans == generate_candidate_plans("g", ctx)
    IN Scoring(plans, [i \in 1..Len(plans) |-> EpisodeClock])

\* what run_episode has computed when it reaches memory.append(rec): s is
\* what the loop of select_plan computed, random.random() returned r,
\* random.choice would return the k-th candidate, world.run returned outcome
EpisodeOf(ctx, s, r, k, outcome) ==
    LET plans == s.plans
        explore == r < epsilon
        chosen == IF explore THEN k ELSE ArgMax(plans, s.scored)
        prev_conf == get_confidence(plans[chosen].fingerprint, 50)
        u == confidence_update(prev_conf, outcome)
    IN [sel |-> [s EXCEPT !.branch = IF explore THEN "explore" ELSE "exploit",
                          !.chosen = chosen],
        upd |-> [prev |-> prev_conf, outcome |-> outcome, new |-> u.new,
                 delta |-> u.delta, raised |-> u.raised],
        rec |-> [fingerprint |-> plans[chosen].fingerprint, goal |-> "g",
                 context_tags |-> ctx, steps |-> plans[chosen].steps,
                 outcome |-> outcome, score_delta |-> u.delta,
                 confidence_after |-> u.new, ts |-> EpisodeClock,
                 notes |-> "n"]]

\* a plausible variant: the update starts from the default confidence
\* instead of the fingerprint's stored one
EpisodeFromDefault(ctx, s, r, k, outcome) ==
    /\ st = "open"
    /\ planner = "ready"
    /\ nappend < MaxEpisodes
    /\ \E ep \in {EpisodeOf(ctx, s, r, k, outcome)} :
       LET u == confidence_update(50, outcome)
           rec == [ep.rec EXCEPT !.confidence_after = u.new]
       IN /\ log' = Append(log, Encode(rec))
          /\ SetMem(AddRecord(Mem, rec))
          /\ sel' = ep.sel
          /\ upd' = [ep.upd EXCEPT !.prev = 50, !.new = u.new]
    /\ nupd' = nupd + 1
    /\ nappend' = nappend + 1
    /\ err' = "none"
    /\ lastop' = "episode"
    /\ UNCHANGED <<st, epsilon, half_life, planner, score, threadVars>>

\* run_episode, the write of the record succeeding
Episode(ctx, s, r, k, outcome) ==
    /\ st = "open"
    /\ planner = "ready"
    /\ nappend < MaxEpisodes
    /\ \E ep \in {EpisodeOf(ctx, s, r, k, outcome)} :
          /\ log' = Append(log, Encode(ep.rec))
          /\ SetMem(AddRecord(Mem, ep.rec))
          /\ sel' = ep.sel
          /\ upd' = ep.upd
    /\ nupd' = nupd + 1
    /\ nappend' = nappend + 1
    /\ err' = "none"
    /\ lastop' = "episode"
    /\ UNCHANGED <<st, epsilon, half_life, planner, score, threadVars>>

\* run_episode(planner, world, memory, tracer, "g", ctx) returning, for
\* every value random.random() and random.choice may return and every
\* outcome world.run may return
RunEpisode(ctx) ==
    /\ nappend < MaxEpisodes
    /\ \E s \in {EpisodeScoring(ctx)} :
          \E r \in RandomDraws : \E k \in 1..Len(Templates) :
              \E outcome \in Outcomes : Episode(ctx, s, r, k, outcome)

\* run_episode, memory.append raising OSError: the exception leaves
\* run_episode, which returns nothing; sel and upd keep the calls of the
\* last episode that returned
EpisodeFail ==
    /\ st = "open"
    /\ planner = "ready"
    /\ nappend < MaxEpisodes
    /\ err' = "OSError"
    /\ lastop' = "episode"
    /\ UNCHANGED <<log, st, memVars, nappend, updVars, selVars, threadVars>>

-----------------------------------------------------------------------------
(* Two threads on one store: one in append, one in score_plan.  The store    *)
(* takes no lock, so the threads interleave between statements.             *)

\* the reader has read nothing yet
NoneSeen == [confidence |-> 0,
             stats |-> [success |-> 0, failure |-> 0, partial |-> 0],
             context_history |-> << >>, last_ts |-> None]

\* what the four getters return for fp on the index m
AggregateOf(m, fp) ==
    [confidence |-> DictGet(m.confidence, fp, 50),
     stats |-> [success |-> DictGet(m.successes, fp, 0),
                failure |-> DictGet(m.failures, fp, 0),
                partial |-> DictGet(m.partials, fp, 0)],
     context_history |-> DictGet(m.context_history, fp, << >>),
     last_ts |-> DictGet(m.last_ts, fp, None)]

\* append, line 146-147: the write, which may raise
WriteLine ==
    /\ wpc = "write"
    /\ \/ /\ log' = Append(log, Encode(wrec))
          /\ wpc' = "records"
          /\ err' = "none"
       \/ /\ log' = log
          /\ wpc' = "done"
          /\ err' = "OSError"
    /\ lastop' = "append"
    /\ UNCHANGED <<st, memVars, nappend, wrec, rpc, seen, before,
                   updVars, selVars>>

\* append, line 148: self.records.append(rec)
WriteRecords ==
    /\ wpc = "records"
    /\ records' = Append(records, wrec)
    /\ wpc' = "confidence"
    /\ UNCHANGED <<log, st, confidence, successes, failures, partials, last_ts,
                   context_history, err, lastop, nappend, wrec, rpc, seen, before,
                   updVars, selVars>>

\* _index_record, line 134
WriteConfidence ==
    /\ wpc = "confidence"
    /\ confidence' = DictSet(confidence, wrec.fingerprint, wrec.confidence_after)
    /\ wpc' = "last_ts"
    /\ UNCHANGED <<log, st, records, successes, failures, partials, last_ts,
                   context_history, err, lastop, nappend, wrec, rpc, seen, before,
                   updVars, selVars>>

\* _index_record, line 135
WriteLastTs ==
    /\ wpc = "last_ts"
    /\ last_ts' = DictSet(last_ts, wrec.fingerprint, wrec.ts)
    /\ wpc' = "context"
    /\ UNCHANGED <<log, st, records, confidence, successes, failures, partials,
                   context_history, err, lastop, nappend, wrec, rpc, seen, before,
                   updVars, selVars>>

\* _index_record, line 136
WriteContext ==
    /\ wpc = "context"
    /\ context_history' =
          DictSet(context_history, wrec.fingerprint,
                  Append(DictGet(context_history, wrec.fingerprint, << >>),
                         wrec.context_tags))
    /\ wpc' = "counts"
    /\ UNCHANGED <<log, st, records, confidence, successes, failures, partials,
                   last_ts, err, lastop, nappend, wrec, rpc, seen, before,
                   updVars, selVars>>

\* _index_record, lines 138-143
WriteCounts ==
    /\ wpc = "counts"
    /\ LET fp == wrec.fingerprint
       IN /\ successes' = IF wrec.outcome = "success"
                          THEN DictSet(successes, fp, DictGet(successes, fp, 0) + 1)
                          ELSE successes
          /\ failures' = IF wrec.outcome = "failure"
                         THEN DictSet(failures, fp, DictGet(failures, fp, 0) + 1)
                         ELSE failures
          /\ partials' = IF wrec.outcome \notin {"success", "failure"}
                         THEN DictSet(partials, fp, DictGet(partials, fp, 0) + 1)
                         ELSE partials
    /\ wpc' = "done"
    /\ nappend' = nappend + 1
    /\ UNCHANGED <<log, st, records, confidence, last_ts, context_history, err,
                   lastop, wrec, rpc, seen, before,
                   updVars, selVars>>

\* score_plan, line 264: base_conf = self.memory.get_confidence(fp, default=0.5)
ReadConfidence ==
    /\ rpc = "confidence"
    /\ seen' = [seen EXCEPT !.confidence = get_confidence(wrec.fingerprint, 50)]
    /\ rpc' = "stats"
    /\ UNCHANGED <<storeVars, wpc, wrec, before, updVars, selVars>>

\* score_plan, line 265: stats = self.memory.get_stats(fp)
ReadStats ==
    /\ rpc = "stats"
    /\ seen' = [seen EXCEPT !.stats = get_stats(wrec.fingerprint)]
    /\ rpc' = "context"
    /\ UNCHANGED <<storeVars, wpc, wrec, before, updVars, selVars>>

\* score_plan, lines 276-281: the context history, a list the store goes on
\* appending to, as it is when the similarities are computed
ReadContext ==
    /\ rpc = "context"
    /\ seen' = [seen EXCEPT !.context_history = get_context_history(wrec.fingerprint)]
    /\ rpc' = "last_ts"
    /\ UNCHANGED <<storeVars, wpc, wrec, before, updVars, selVars>>

\* score_plan, line 283: self.memory.get_last_ts(fp)
ReadLastTs ==
    /\ rpc = "last_ts"
    /\ seen' = [seen EXCEPT !.last_ts = get_last_ts(wrec.fingerprint)]
    /\ rpc' = "done"
    /\ UNCHANGED <<storeVars, wpc, wrec, before, updVars, selVars>>

-----------------------------------------------------------------------------
(* Specifications *)

\* the store: sessions of open, append and close on one log file
Init ==
    /\ StoreInit
    /\ upd = UpdIdle(50) /\ nupd = 0
    /\ epsilon = 15 /\ half_life = 1 /\ sel = NoSel
    /\ planner = "none" /\ score = NoScore
    /\ wpc = "idle" /\ wrec = NoRecord /\ rpc = "idle" /\ seen = NoneSeen
    /\ before = EmptyMem

Next ==
    \/ Open
    \/ \E rec \in RecordInputs : AppendOk(rec)
    \/ \E rec \in RecordInputs : AppendFail(rec)
    \/ Close

Spec == Init /\ [][Next]_vars

\* the learning rule applied over and over to its own result
UpdateInit ==
    /\ StoreInit
    /\ log = << >>
    /\ \E c \in StartConfidences : upd = UpdIdle(c)
    /\ nupd = 0
    /\ epsilon = 15 /\ half_life = 1 /\ sel = NoSel
    /\ planner = "none" /\ score = NoScore
    /\ wpc = "idle" /\ wrec = NoRecord /\ rpc = "idle" /\ seen = NoneSeen
    /\ before = EmptyMem

UpdateNext == \E outcome \in AnyOutcomes : Update(outcome)

SpecUpdate == UpdateInit /\ [][UpdateNext]_vars

\* the planner selecting among candidate lists on a store with a history
SelectInit ==
    /\ \E hist \in Histories :
          /\ log = [i \in 1..Len(hist) |-> Encode(hist[i])]
          /\ MemIs(AddAll(EmptyMem, hist))
          /\ nappend = Len(hist)
    /\ st = "open"
    /\ err = "none"
    /\ lastop = "open"
    /\ upd = UpdIdle(50) /\ nupd = 0
    /\ \E c \in PlannerConfigs : epsilon = c[1] /\ half_life = c[2]
    /\ sel = NoSel
    /\ planner = "ready" /\ score = NoScore
    /\ wpc = "idle" /\ wrec = NoRecord /\ rpc = "idle" /\ seen = NoneSeen
    /\ before = EmptyMem

SelectNext ==
    \E plans \in PlanLists :
        \E nows \in NowLists(Len(plans)) :
            \E r \in RandomDraws :
                \/ SelectExploit(plans, nows, r)
                \/ \E k \in 1..Len(plans) : SelectExplore(plans, nows, r, k)

SpecSelect == SelectInit /\ [][SelectNext]_vars

\* a planner constructed on an open store with any epsilon, then selecting
ConfigInit ==
    /\ \E hist \in Histories :
          /\ log = [i \in 1..Len(hist) |-> Encode(hist[i])]
          /\ MemIs(AddAll(EmptyMem, hist))
          /\ nappend = Len(hist)
    /\ st = "open"
    /\ err = "none"
    /\ lastop = "open"
    /\ upd = UpdIdle(50) /\ nupd = 0
    /\ epsilon = 15 /\ half_life = 1 /\ sel = NoSel
    /\ planner = "none" /\ score = NoScore
    /\ wpc = "idle" /\ wrec = NoRecord /\ rpc = "idle" /\ seen = NoneSeen
    /\ before = EmptyMem

ConfigNext ==
    \/ \E eps \in EpsilonInputs : \E hl \in {0, 1} : Construct(eps, hl)
    \/ \E plans \in PlanLists :
          \E nows \in NowLists(Len(plans)) :
              \E r \in RandomDraws :
                  \/ SelectExploit(plans, nows, r)
                  \/ \E k \in 1..Len(plans) : SelectExplore(plans, nows, r, k)

SpecConfig == ConfigInit /\ [][ConfigNext]_vars

\* the scorer on stores of any content
ScoreInit ==
    /\ \E hist \in ScoreHistories :
          /\ log = [i \in 1..Len(hist) |-> Encode(hist[i])]
          /\ MemIs(AddAll(EmptyMem, hist))
          /\ nappend = Len(hist)
    /\ st = "open"
    /\ err = "none"
    /\ lastop = "open"
    /\ upd = UpdIdle(50) /\ nupd = 0
    /\ epsilon = 15
    /\ half_life \in HalfLifeInputs
    /\ sel = NoSel
    /\ planner = "ready" /\ score = NoScore
    /\ wpc = "idle" /\ wrec = NoRecord /\ rpc = "idle" /\ seen = NoneSeen
    /\ before = EmptyMem

ScoreNext == \E plan \in Plans : \E now \in Nows : ScorePlan(plan, now)

SpecScore == ScoreInit /\ [][ScoreNext]_vars

\* episodes on a store that starts empty, the planner with the defaults of
\* the demo (epsilon 0.15, one half-life per unit of the clock)
EpisodeInit ==
    /\ log = << >>
    /\ MemIs(EmptyMem)
    /\ nappend = 0
    /\ st = "open"
    /\ err = "none"
    /\ lastop = "open"
    /\ upd = UpdIdle(50) /\ nupd = 0
    /\ epsilon = 15 /\ half_life = 1 /\ sel = NoSel
    /\ planner = "ready" /\ score = NoScore
    /\ wpc = "idle" /\ wrec = NoRecord /\ rpc = "idle" /\ seen = NoneSeen
    /\ before = EmptyMem

EpisodeNext ==
    \/ RunEpisode(<<"x">>)
    \/ EpisodeFail

SpecEpisode == EpisodeInit /\ [][EpisodeNext]_vars

\* one append and one score_plan running in two threads: a store with a
\* history; one thread is about to append a record, the other is about to
\* score a plan with that record's fingerprint
ThreadsInit ==
    /\ \E hist \in Histories :
          /\ log = [i \in 1..Len(hist) |-> Encode(hist[i])]
          /\ MemIs(AddAll(EmptyMem, hist))
          /\ before = AddAll(EmptyMem, hist)
          /\ nappend = Len(hist)
    /\ st = "open"
    /\ err = "none"
    /\ lastop = "open"
    /\ upd = UpdIdle(50) /\ nupd = 0
    /\ epsilon = 15 /\ half_life = 1 /\ sel = NoSel
    /\ planner = "none" /\ score = NoScore
    /\ wrec \in RecordInputs
    /\ wpc = "write"
    /\ rpc = "confidence"
    /\ seen = NoneSeen

ThreadsNext ==
    \/ WriteLine
    \/ WriteRecords
    \/ WriteConfidence
    \/ WriteLastTs
    \/ WriteContext
    \/ WriteCounts
    \/ ReadConfidence
    \/ ReadStats
    \/ ReadContext
    \/ ReadLastTs

SpecThreads == ThreadsInit /\ [][ThreadsNext]_vars

-----------------------------------------------------------------------------
(* Properties of the store *)

NonBlank(lines) == SelectSeq(lines, LAMBDA l : l.json # "blank")

\* a line that holds a JSON object with every field EpisodicRecord requires
WellFormed(line) ==
    /\ line.json = "object"
    /\ RequiredFields \subseteq Keys(line.members)

RecordsOf(fp) == SelectSeq(records, LAMBDA r : r.fingerprint = fp)

MaxTs(rs) == CHOOSE t \in {rs[i].ts : i \in 1..Len(rs)} :
                 \A i \in 1..Len(rs) : rs[i].ts <= t

CountOf(rs, kinds) == Cardinality({i \in 1..Len(rs) : rs[i].outcome \in kinds})

\* C1 (replay determinism): whenever a store is open, a new EpisodicMemory
\* opened on the same log would load without error and hold the same
\* record list and the same per-fingerprint aggregates as the store in use.
InvC1_ReplayDeterminism ==
    st = "open" => Replay(log) = [err |-> "none", mem |-> Mem]

\* two records for one fingerprint were appended and the store is in use
WitC1_TwoAppendsInSession ==
    /\ st = "open"
    /\ lastop = "append"
    /\ err = "none"
    /\ nappend = 2
    /\ \E fp \in Fingerprints : Len(RecordsOf(fp)) >= 2

\* C2 (write-then-index): an append whose write fails raises to the caller
\* and leaves the record list and every aggregate as they were; the record
\* list and the aggregates of an open store change only in a step that also
\* adds the record's line to the log.
ThmC2_WriteThenIndex ==
    [][ /\ (lastop' = "append" /\ err' # "none") =>
             (memVars' = memVars /\ log' = log /\ err' = "OSError")
        /\ (st = "open" /\ st' = "open" /\ memVars' # memVars) =>
             (/\ Len(log') = Len(log) + 1
              /\ SubSeq(log', 1, Len(log)) = log
              /\ Decode(log'[Len(log')]).err = "none"
              /\ records' = Append(records, Decode(log'[Len(log')]).rec)) ]_vars

\* a write failed on a store that already holds records
WitC2_FailedAppend ==
    /\ lastop = "append"
    /\ err = "OSError"
    /\ Len(records) >= 1

\* C8 as stated: each aggregate follows the record with the greatest
\* timestamp: the last-seen time is the greatest timestamp of the
\* fingerprint's records and the confidence is that of a record carrying it.
InvC8_TimestampOrderFold ==
    st = "open" =>
        \A fp \in Fingerprints :
            LET rs == RecordsOf(fp)
            IN rs # << >> =>
                 /\ get_last_ts(fp) = MaxTs(rs)
                 /\ \E i \in 1..Len(rs) :
                        /\ rs[i].ts = MaxTs(rs)
                        /\ get_confidence(fp, 50) = rs[i].confidence_after

\* C8 amended: each aggregate is the fold of the fingerprint's records in
\* the order they were appended: confidence and last-seen time are those of
\* the record appended last, the context history lists the contexts in
\* append order, the success and failure counts count the records of that
\* outcome and the partial count every other record; the last-seen time is
\* the greatest timestamp when the timestamps do not decrease in that order.
InvC8_AppendOrderFold ==
    st = "open" =>
        \A fp \in Fingerprints :
            LET rs == RecordsOf(fp)
            IN IF rs = << >>
               THEN /\ fp \notin DOMAIN confidence
                    /\ fp \notin DOMAIN last_ts
                    /\ fp \notin DOMAIN context_history
                    /\ get_stats(fp) = [success |-> 0, failure |-> 0, partial |-> 0]
               ELSE /\ get_confidence(fp, 50) = rs[Len(rs)].confidence_after
                    /\ get_last_ts(fp) = rs[Len(rs)].ts
                    /\ get_context_history(fp) =
                           [i \in 1..Len(rs) |-> rs[i].context_tags]
                    /\ get_stats(fp) =
                           [success |-> CountOf(rs, {"success"}),
                            failure |-> CountOf(rs, {"failure"}),
                            partial |-> Len(rs) - CountOf(rs, {"success", "failure"})]
                    /\ (\A i, j \in 1..Len(rs) : i <= j => rs[i].ts <= rs[j].ts)
                           => get_last_ts(fp) = MaxTs(rs)

\* a fingerprint whose record appended last carries the smaller timestamp
WitC8_OutOfOrderAppend ==
    /\ st = "open"
    /\ \E fp \in Fingerprints :
          LET rs == RecordsOf(fp)
          IN /\ Len(rs) = 2
             /\ rs[1].ts > rs[2].ts
             /\ confidence[fp] = rs[2].confidence_after

StripUnknown(line) ==
    IF line.json = "object"
    THEN [line EXCEPT !.members = SelectSeq(@, LAMBDA kv : kv[1] \in AllFields)]
    ELSE line

HasUnknown(line) == line.json = "object" /\ ~(Keys(line.members) \subseteq AllFields)

\* C10 (forward compatibility): after an open of a log whose non-blank lines
\* all carry the required fields, some with unknown fields besides, the
\* store is open and holds what the same log without the unknown fields
\* gives.
InvC10_UnknownFieldsIgnored ==
    LET lines == NonBlank(log)
    IN (/\ lastop = "open"
        /\ \A i \in 1..Len(lines) : WellFormed(lines[i])
        /\ \E i \in 1..Len(lines) : HasUnknown(lines[i]))
       => /\ st = "open"
          /\ err = "none"
          /\ Mem = Replay([i \in 1..Len(log) |-> StripUnknown(log[i])]).mem

IsPrefix(s, t) == Len(s) <= Len(t) /\ SubSeq(t, 1, Len(s)) = s

\* C14 (append-only): every step leaves the lines of the log as a prefix of
\* the log after it, and every step of a store in use leaves its record
\* list as a prefix of the record list after it; a step that changes either
\* adds exactly one entry at the end.  No line or record is edited,
\* reordered or deleted.
ThmC14_AppendOnly ==
    [][ /\ IsPrefix(log, log')
        /\ Len(log') <= Len(log) + 1
        /\ (st = "open" /\ st' = "open") =>
              /\ IsPrefix(records, records')
              /\ Len(records') <= Len(records) + 1 ]_vars

\* a second append in a session on a log that already held a record
WitC14_GrownLoadedLog ==
    /\ st = "open"
    /\ lastop = "append"
    /\ err = "none"
    /\ Len(records) = 3
    /\ Len(log) >= 3
    /\ nappend = 2

\* the defaults a caller may pass to get_confidence
Defaults == {30, 50}

\* C13 (getters): for a fingerprint with no record, get_confidence(fp, d)
\* returns d and get_stats(fp) all-zero counts; for a fingerprint with one
\* record, of outcome success and confidence_after c, get_confidence(fp, d)
\* returns c and get_stats(fp) returns {success: 1, failure: 0, partial: 0};
\* for a fingerprint with records, get_confidence returns the
\* confidence_after of the record appended last.
InvC13_GettersFollowAppends ==
    st = "open" =>
        \A fp \in Fingerprints : \A d \in Defaults :
            LET rs == RecordsOf(fp)
            IN /\ rs = << >> =>
                    /\ get_confidence(fp, d) = d
                    /\ get_stats(fp) = [success |-> 0, failure |-> 0, partial |-> 0]
               /\ (Len(rs) = 1 /\ rs[1].outcome = "success") =>
                    /\ get_confidence(fp, d) = rs[1].confidence_after
                    /\ get_stats(fp) = [success |-> 1, failure |-> 0, partial |-> 0]
               /\ rs # << >> =>
                    get_confidence(fp, d) = rs[Len(rs)].confidence_after

\* one success record was appended for one fingerprint, none for the other
WitC13_OneSuccessAppended ==
    /\ st = "open"
    /\ lastop = "append"
    /\ err = "none"
    /\ log = <<Encode(records[1])>>
    /\ RecordsOf("b") = << >>
    /\ records[1].outcome = "success"
    /\ get_confidence("a", 30) = 58
    /\ get_confidence("b", 30) = 30

\* every fingerprint the store knows of
Known == Fingerprints \cup DOMAIN confidence \cup DOMAIN last_ts
             \cup DOMAIN context_history \cup DOMAIN successes
             \cup DOMAIN failures \cup DOMAIN partials

\* C15 (index consistency): in every state of the store, and for every
\* fingerprint, the three counts add up to the number of records held for
\* the fingerprint and to the length of its context history, and the
\* fingerprint has a stored confidence exactly when it has a last-seen
\* timestamp and exactly when that total is at least 1.
InvC15_IndexConsistent ==
    \A fp \in Known :
        LET stats == get_stats(fp)
            total == stats.success + stats.failure + stats.partial
        IN /\ total = Len(RecordsOf(fp))
           /\ total = Len(get_context_history(fp))
           /\ (fp \in DOMAIN confidence) <=> (fp \in DOMAIN last_ts)
           /\ (fp \in DOMAIN confidence) <=> (total >= 1)

\* a fingerprint with two records, one of them of an outcome that is none
\* of the three kinds, beside a fingerprint with none
WitC15_MixedOutcomes ==
    /\ st = "open"
    /\ Len(RecordsOf("a")) = 2
    /\ RecordsOf("a")[1].outcome = "success"
    /\ RecordsOf("a")[2].outcome = BogusOutcome
    /\ get_stats("a") = [success |-> 1, failure |-> 0, partial |-> 1]
    /\ "b" \notin DOMAIN confidence

-----------------------------------------------------------------------------
(* Properties of the learning rule *)

\* C3 (confidence clamping): every confidence a call of confidence_update
\* returns lies in [0.05, 0.95], whatever the confidence it was given and
\* whatever outcomes came before.
InvC3_ConfidenceClamped ==
    nupd >= 1 => (upd.new >= 5 /\ upd.new <= 95)

\* a success on a confidence already at the upper end, after an earlier call
WitC3_SuccessAtCap ==
    /\ nupd >= 2
    /\ upd.prev = 95
    /\ upd.outcome = "success"
    /\ upd.new = 95

\* C4 (invalid outcome): a call of confidence_update with an outcome that
\* is none of success, failure, partial raises InvalidOutcome and returns
\* no confidence.
InvC4_InvalidOutcomeRejected ==
    (nupd >= 1 /\ upd.outcome \notin Outcomes) =>
        (upd.raised = "InvalidOutcome" /\ upd.new = upd.prev)

-----------------------------------------------------------------------------
(* Properties of the selector *)

PlanScore(i) == sel.computed[i].final_score

DistinctFingerprints(plans) ==
    \A i, j \in 1..Len(plans) :
        plans[i].fingerprint = plans[j].fingerprint => i = j

\* C5 (selection under epsilon = 0): select_plan returns a candidate whose
\* final score, as score_plan computed it, no other candidate's exceeds,
\* and the first such candidate of the list.
InvC5_MaxScoreFirstOnTies ==
    (epsilon = 0 /\ sel.branch # "none") =>
        /\ sel.branch = "exploit"
        /\ \A j \in 1..Len(sel.plans) : ~RLess(PlanScore(sel.chosen), PlanScore(j))
        /\ \A j \in 1..(sel.chosen - 1) : RLess(PlanScore(j), PlanScore(sel.chosen))

\* C5 for candidates with different fingerprints (it holds there)
InvC5_DistinctFingerprints ==
    (epsilon = 0 /\ sel.branch # "none" /\ DistinctFingerprints(sel.plans)) =>
        /\ sel.branch = "exploit"
        /\ \A j \in 1..Len(sel.plans) : ~RLess(PlanScore(sel.chosen), PlanScore(j))
        /\ \A j \in 1..(sel.chosen - 1) : RLess(PlanScore(j), PlanScore(sel.chosen))

\* C6 (scores for every candidate): on either branch the plan returned is
\* one of the candidates and the dict returned holds, for every candidate,
\* the breakdown score_plan computed for it.
InvC6_EveryCandidateScored ==
    sel.branch # "none" =>
        /\ sel.chosen \in 1..Len(sel.plans)
        /\ \A i \in 1..Len(sel.plans) :
              /\ sel.plans[i].fingerprint \in DOMAIN sel.scored
              /\ sel.scored[sel.plans[i].fingerprint] = sel.computed[i]

\* C6 for candidates with different fingerprints (it holds there)
InvC6_DistinctFingerprints ==
    (sel.branch # "none" /\ DistinctFingerprints(sel.plans)) =>
        /\ sel.chosen \in 1..Len(sel.plans)
        /\ \A i \in 1..Len(sel.plans) :
              /\ sel.plans[i].fingerprint \in DOMAIN sel.scored
              /\ sel.scored[sel.plans[i].fingerprint] = sel.computed[i]

\* C11 (epsilon validated at construction): a planner is never constructed
\* with an epsilon outside [0, 1], so that select_plan never runs with one.
InvC11_EpsilonValidated ==
    /\ planner = "ready" => (epsilon >= 0 /\ epsilon <= 100)
    /\ sel.branch # "none" => (epsilon >= 0 /\ epsilon <= 100)

-----------------------------------------------------------------------------
(* Properties of the scorer *)

\* C12 (score boundedness): the final score score_plan returns is at least
\* 0 and at most 1, for every plan, every store content (counts, stored
\* confidence inside or outside [0, 1], context history, last-seen time)
\* and every half-life.
InvC12_ScoreBounded ==
    score.called =>
        /\ ~RLess(score.result.final_score, Rat(0, 1))
        /\ ~RLess(Rat(1, 1), score.result.final_score)

\* a plan scored on a stored confidence above 1: the blend exceeds 1 and
\* the score returned is 1
WitC12_ClampedAtOne ==
    /\ score.called
    /\ RLess(Rat(1, 1), score.result.base_confidence)
    /\ score.result.final_score = Rat(1, 1)

-----------------------------------------------------------------------------
(* Properties of run_episode *)

\* the change of confidence the rule prescribes for an outcome
Delta(outcome) ==
    CASE outcome = "success" -> 8
      [] outcome = "partial" -> 2
      [] outcome = "failure" -> 0 - 10

Clamp(x, lo, hi) == IF x < lo THEN lo ELSE IF x > hi THEN hi ELSE x

StoredConfidencesInRange ==
    /\ \A i \in 1..Len(records) :
          records[i].confidence_after >= 5 /\ records[i].confidence_after <= 95
    /\ \A fp \in DOMAIN confidence : confidence[fp] >= 5 /\ confidence[fp] <= 95

\* an episode that returned: one record more, for the chosen candidate
EpisodeAppendsChained ==
    (lastop' = "episode" /\ err' = "none") =>
        LET fp == sel'.plans[sel'.chosen].fingerprint
            prior == RecordsOf(fp)
            c_prev == IF prior = << >> THEN 50
                      ELSE prior[Len(prior)].confidence_after
            rec == records'[Len(records')]
        IN /\ records' = Append(records, rec)
           /\ log' = Append(log, Encode(rec))
           /\ rec.fingerprint = fp
           /\ rec.outcome \in Outcomes
           /\ rec.confidence_after = Clamp(c_prev + Delta(rec.outcome), 5, 95)
           /\ rec.score_delta = Delta(rec.outcome)
           /\ \A g \in Fingerprints \ {fp} :
                 AggregateOf(Mem', g) = AggregateOf(Mem, g)

\* an episode whose write of the record raised: nothing is appended
EpisodeRaisedAppendsNothing ==
    (lastop' = "episode" /\ err' # "none") =>
        (log' = log /\ memVars' = memVars)

\* C16 (confidence chain): on a store that starts empty and is written by
\* run_episode only, every episode that returns has appended exactly one
\* record, for the fingerprint of the candidate chosen, whose
\* confidence_after is clamp(c_prev + delta(outcome), 0.05, 0.95), c_prev
\* being the confidence_after of the preceding record of that fingerprint
\* (0.5 if there is none), and whose score_delta is delta(outcome); every
\* stored confidence lies in [0.05, 0.95] and the aggregates of the other
\* fingerprints are left as they were.  (An episode in which the write of
\* the record raises appends nothing.)
ThmC16_ConfidenceChain ==
    /\ []StoredConfidencesInRange
    /\ [][EpisodeAppendsChained /\ EpisodeRaisedAppendsNothing]_vars

\* the fifth failure in a row of one plan: 0.10 - 0.10 is raised to 0.05,
\* the other plan never having been chosen
WitC16_FloorAfterFiveFailures ==
    /\ lastop = "episode"
    /\ err = "none"
    /\ Len(records) = 5
    /\ upd.prev = 10
    /\ upd.outcome = "failure"
    /\ records[5].confidence_after = 5
    /\ confidence = DictSet(EmptyDict, records[5].fingerprint, 5)

-----------------------------------------------------------------------------
(* Properties of the store under two threads *)

\* C7 (no torn read): what a score_plan that runs beside an append has read
\* of the fingerprint's aggregate (confidence, counts, context history,
\* last timestamp) is the aggregate as it was before the append or the
\* aggregate as it is after it.
InvC7_NoTornAggregate ==
    rpc = "done" =>
        \/ seen = AggregateOf(before, wrec.fingerprint)
        \/ seen = AggregateOf(AddRecord(before, wrec), wrec.fingerprint)

====
